---- MODULE Spec2Model ----
(***************************************************************************)
(* Outgoing webhook server action (webhook_outgoing, ir.actions.server).   *)
(* Texts are sequences of one-character strings, byte strings are          *)
(* sequences of integers, so that rendering, encoding and JSON             *)
(* serialisation are computed and not assumed.                             *)
(***************************************************************************)
EXTENDS Integers, Sequences, FiniteSets, TLC

(***************************************************************************)
(* Bounds                                                                  *)
(***************************************************************************)
MaxRecords == 2
MaxFieldLen == 3

(***************************************************************************)
(* Program constants                                                       *)
(***************************************************************************)
DEFAULT_GET_TIMEOUT == 5
DEFAULT_POST_TIMEOUT == 5

(***************************************************************************)
(* Text helpers                                                            *)
(***************************************************************************)
\* str(int) for a non-negative integer, as Jinja2 prints record.id
Digit(d) ==
    CASE d = 0 -> "0" [] d = 1 -> "1" [] d = 2 -> "2" [] d = 3 -> "3"
      [] d = 4 -> "4" [] d = 5 -> "5" [] d = 6 -> "6" [] d = 7 -> "7"
      [] d = 8 -> "8" [] OTHER -> "9"

RECURSIVE IntToStr(_)
IntToStr(n) == IF n < 10 THEN <<Digit(n)>> ELSE IntToStr(n \div 10) \o <<Digit(n % 10)>>

\* code point of the characters the model uses; "e_acute" stands for U+00E9
Ord(c) ==
    CASE c = "\n" -> 10 [] c = "\t" -> 9 [] c = "\r" -> 13 [] c = "\f" -> 12
      [] c = "BS" -> 8
      [] c = " " -> 32 [] c = "\"" -> 34 [] c = "," -> 44 [] c = ":" -> 58
      [] c = "0" -> 48 [] c = "1" -> 49 [] c = "2" -> 50 [] c = "3" -> 51
      [] c = "4" -> 52 [] c = "5" -> 53 [] c = "6" -> 54 [] c = "7" -> 55
      [] c = "8" -> 56 [] c = "9" -> 57
      [] c = "A" -> 65 [] c = "B" -> 66 [] c = "\\" -> 92
      [] c = "a" -> 97 [] c = "b" -> 98 [] c = "d" -> 100 [] c = "e" -> 101 [] c = "f" -> 102
      [] c = "i" -> 105 [] c = "l" -> 108 [] c = "m" -> 109 [] c = "n" -> 110
      [] c = "q" -> 113 [] c = "r" -> 114 [] c = "s" -> 115 [] c = "t" -> 116
      [] c = "u" -> 117 [] c = "v" -> 118 [] c = "y" -> 121
      [] c = "{" -> 123 [] c = "}" -> 125
      [] c = "e_acute" -> 233
      [] OTHER -> 63

\* chr(n), the inverse of Ord
Chr(n) ==
    CASE n = 10 -> "\n" [] n = 9 -> "\t" [] n = 13 -> "\r" [] n = 12 -> "\f"
      [] n = 8 -> "BS" [] n = 32 -> " " [] n = 34 -> "\"" [] n = 44 -> ","
      [] n = 58 -> ":" [] n = 48 -> "0" [] n = 49 -> "1" [] n = 50 -> "2"
      [] n = 51 -> "3" [] n = 52 -> "4" [] n = 53 -> "5" [] n = 54 -> "6"
      [] n = 55 -> "7" [] n = 56 -> "8" [] n = 57 -> "9" [] n = 65 -> "A"
      [] n = 66 -> "B" [] n = 92 -> "\\" [] n = 97 -> "a" [] n = 98 -> "b"
      [] n = 100 -> "d" [] n = 101 -> "e" [] n = 102 -> "f" [] n = 105 -> "i"
      [] n = 108 -> "l" [] n = 109 -> "m" [] n = 110 -> "n" [] n = 113 -> "q"
      [] n = 114 -> "r" [] n = 115 -> "s" [] n = 116 -> "t" [] n = 117 -> "u"
      [] n = 118 -> "v" [] n = 121 -> "y" [] n = 123 -> "{" [] n = 125 -> "}"
      [] n = 233 -> "e_acute"
      [] OTHER -> "?"

\* str.encode(encoding="utf-8"): one byte below U+0080, two bytes below U+0800
EncodeChar(c) ==
    IF Ord(c) < 128 THEN <<Ord(c)>>
    ELSE <<192 + (Ord(c) \div 64), 128 + (Ord(c) % 64)>>

RECURSIVE EncodeUtf8(_)
EncodeUtf8(s) == IF s = <<>> THEN <<>> ELSE EncodeChar(Head(s)) \o EncodeUtf8(Tail(s))

RECURSIVE DecodeUtf8(_)
DecodeUtf8(b) ==
    IF b = <<>> THEN <<>>
    ELSE IF Head(b) < 128 THEN <<Chr(Head(b))>> \o DecodeUtf8(Tail(b))
    ELSE <<Chr((Head(b) - 192) * 64 + (Head(Tail(b)) - 128))>> \o DecodeUtf8(Tail(Tail(b)))

\* a payload is a str or a bytes object
StrVal(s) == [t |-> "str", v |-> s]
BytesVal(b) == [t |-> "bytes", v |-> b]
NoneVal == [t |-> "None", v |-> <<>>]
EmptyDict == [t |-> "dict", v |-> <<>>]

\* str(x) in the place of ustr(x): bytes are printed as their literal b'...'
UstrRepr(x) ==
    CASE x.t = "bytes" -> <<"b", "'">> \o DecodeUtf8(x.v) \o <<"'">>
      [] x.t = "str" -> x.v
      [] OTHER -> <<"N", "o", "n", "e">>

\* odoo.tools.ustr: bytes are decoded as UTF-8, str is returned, other objects are str()'ed
Ustr(x) ==
    CASE x.t = "bytes" -> DecodeUtf8(x.v)
      [] x.t = "str" -> x.v
      [] OTHER -> <<"N", "o", "n", "e">>

(***************************************************************************)
(* Records and helpers.get_escaped_value                                   *)
(***************************************************************************)
\* a field value: a str, an int or False
FieldStr(s) == [t |-> "str", v |-> s, n |-> 0]
FieldInt(n) == [t |-> "int", v |-> <<>>, n |-> n]
FieldFalse == [t |-> "bool", v |-> <<>>, n |-> 0]

\* getattr(record, str(field), False)
GetAttr(record, field) ==
    CASE field = "name" -> FieldStr(record.name)
      [] field = "id" -> FieldInt(record.id)
      [] OTHER -> FieldFalse

\* str(value), as the template prints it
ToText(val) ==
    CASE val.t = "str" -> val.v
      [] val.t = "int" -> IntToStr(val.n)
      [] OTHER -> <<"F", "a", "l", "s", "e">>

ESCAPE_CHARS == <<"\"", "\n", "\r", "\t", "BS", "\f">>
REPLACE_CHARS == <<(<<"\\", "\"">>), (<<"\\", "n">>), (<<"\\", "r">>),
                   (<<"\\", "t">>), (<<"\\", "b">>), (<<"\\", "f">>)>>

Whitespace == {" ", "\n", "\r", "\t", "\f"}

RECURSIVE LStrip(_)
LStrip(s) == IF s # <<>> /\ Head(s) \in Whitespace THEN LStrip(Tail(s)) ELSE s

RECURSIVE RStrip(_)
RStrip(s) ==
    IF s # <<>> /\ s[Len(s)] \in Whitespace THEN RStrip(SubSeq(s, 1, Len(s) - 1)) ELSE s

\* str.lstrip() in the place of str.strip(): the end of the value is kept
StripLeft(s) == LStrip(s)

\* str.strip()
Strip(s) == RStrip(LStrip(s))

\* str.replace(old, new, 1): only the first occurrence is replaced
ReplaceFirst(s, old, new) ==
    IF \E k \in 1..Len(s) : s[k] = old
    THEN LET k == CHOOSE k \in 1..Len(s) : s[k] = old /\ \A m \in 1..(k - 1) : s[m] # old
         IN  SubSeq(s, 1, k - 1) \o new \o SubSeq(s, k + 1, Len(s))
    ELSE s

\* str.replace(old, new) for a one-character old
RECURSIVE Replace(_, _, _)
Replace(s, old, new) ==
    IF s = <<>> THEN <<>>
    ELSE (IF Head(s) = old THEN new ELSE <<Head(s)>>) \o Replace(Tail(s), old, new)

\* the loop with the backslash doubled before the first pair
RECURSIVE ReplaceFromBackslashFirst(_, _)
ReplaceFromBackslashFirst(s, i) ==
    IF i > Len(ESCAPE_CHARS) THEN s
    ELSE ReplaceFromBackslashFirst(
             Replace(IF i = 1 THEN Replace(s, "\\", <<"\\", "\\">>) ELSE s,
                     ESCAPE_CHARS[i], REPLACE_CHARS[i]), i + 1)

\* the for loop over zip(ESCAPE_CHARS, REPLACE_CHARS), from pair i on
RECURSIVE ReplaceFrom(_, _)
ReplaceFrom(s, i) ==
    IF i > Len(ESCAPE_CHARS) THEN s
    ELSE ReplaceFrom(Replace(s, ESCAPE_CHARS[i], REPLACE_CHARS[i]), i + 1)

get_escaped_value(record, field) ==
    LET field_value == GetAttr(record, field)
    IN  IF field_value.t = "str" /\ field_value.v # <<>>
        THEN FieldStr(ReplaceFrom(Strip(field_value.v), 1))
        ELSE field_value

(***************************************************************************)
(* Templates: Environment(loader=BaseLoader()).from_string(t).render(ctx)  *)
(* A template is its sequence of segments: literal text, {{record.f}},     *)
(* {{escape(record, "f")}}, or an unterminated expression.                 *)
(***************************************************************************)
Lit(s) == [t |-> "lit", s |-> s, f |-> ""]
Var(f) == [t |-> "var", s |-> <<>>, f |-> f]
Esc(f) == [t |-> "esc", s |-> <<>>, f |-> f]
Bad == [t |-> "bad", s |-> <<>>, f |-> ""]

Comment == [t |-> "comment", s |-> <<>>, f |-> ""]

\* the default body template: the comment, then
\* {
\*     "id": {{record.id}},
\*     "name": "{{record.name}}"
\* }
\* (the template's last newline is dropped by from_string)
DEFAULT_BODY_TEMPLATE ==
    <<Comment,
      Lit(<<"\n", "{", "\n", " ", " ", " ", " ", "\"", "i", "d", "\"", ":", " ">>),
      Var("id"),
      Lit(<<",", "\n", " ", " ", " ", " ", "\"", "n", "a", "m", "e", "\"", ":", " ", "\"">>),
      Var("name"),
      Lit(<<"\"", "\n", "}">>)>>
\* {{escape(record, "name")}}
TemplateEscape == <<Esc("name")>>
\* {{record.name
TemplateBroken == <<Bad>>

RenderOk(s) == [ok |-> TRUE, v |-> s, exc |-> "none"]
RenderErr(e) == [ok |-> FALSE, v |-> <<>>, exc |-> e]

\* one segment printed against the context; names is the set of context keys
RenderSegment(seg, names, record) ==
    CASE seg.t = "lit" -> RenderOk(seg.s)
      [] seg.t = "comment" -> RenderOk(<<>>)
      [] seg.t = "var" -> RenderOk(ToText(GetAttr(record, seg.f)))
      [] seg.t = "esc" ->
            IF "escape" \in names
            THEN RenderOk(ToText(get_escaped_value(record, seg.f)))
            ELSE RenderErr("UndefinedError")
      [] OTHER -> RenderErr("TemplateSyntaxError")

RECURSIVE RenderSegments(_, _, _)
RenderSegments(segs, names, record) ==
    IF segs = <<>> THEN RenderOk(<<>>)
    ELSE LET h == RenderSegment(Head(segs), names, record)
             r == RenderSegments(Tail(segs), names, record)
         IN  IF ~h.ok THEN h ELSE IF ~r.ok THEN r ELSE RenderOk(h.v \o r.v)

\* from_string compiles the whole template first, render then prints it
Render(template, names, record) ==
    IF \E i \in 1..Len(template) : template[i].t = "bad"
    THEN RenderErr("TemplateSyntaxError")
    ELSE RenderSegments(template, names, record)

(***************************************************************************)
(* json.dumps of the GraphQL payload                                       *)
(***************************************************************************)
\* one character inside a JSON string (ensure_ascii=True)
JsonEscapeChar(c) ==
    CASE c = "\"" -> <<"\\", "\"">>
      [] c = "\\" -> <<"\\", "\\">>
      [] c = "\n" -> <<"\\", "n">>
      [] c = "\r" -> <<"\\", "r">>
      [] c = "\t" -> <<"\\", "t">>
      [] c = "BS" -> <<"\\", "b">>
      [] c = "\f" -> <<"\\", "f">>
      [] c = "e_acute" -> <<"\\", "u", "0", "0", "e", "9">>
      [] OTHER -> <<c>>

RECURSIVE JsonEscape(_)
JsonEscape(s) == IF s = <<>> THEN <<>> ELSE JsonEscapeChar(Head(s)) \o JsonEscape(Tail(s))

\* json.dumps({"query": query, "variables": {}})
JsonDumpsQuery(query) ==
    <<"{", "\"", "q", "u", "e", "r", "y", "\"", ":", " ", "\"">> \o JsonEscape(query)
    \o <<"\"", ",", " ", "\"", "v", "a", "r", "i", "a", "b", "l", "e", "s", "\"", ":", " ",
         "{", "}", "}">>

(***************************************************************************)
(* Request building                                                        *)
(***************************************************************************)
Built(p) == [ok |-> TRUE, payload |-> p, exc |-> "none"]
BuildErr(e) == [ok |-> FALSE, payload |-> NoneVal, exc |-> e]

\* _get_webhook_headers giving {} for a text json.loads rejects
WebhookHeadersLenient(action) == [ok |-> TRUE, v |-> <<>>, exc |-> "none"]

\* the stored header texts of the model and what json.loads / dict make of them
HeaderTexts == {"{}", "{'X': '1'}"}

_get_webhook_headers(action) ==
    CASE action.headers = "" -> [ok |-> TRUE, v |-> <<>>, exc |-> "none"]
      [] action.headers = "{}" -> [ok |-> TRUE, v |-> <<>>, exc |-> "none"]
      [] OTHER -> [ok |-> FALSE, v |-> <<>>, exc |-> "JSONDecodeError"]

_prepare_data_for_get(action, record, names) ==
    LET data == Render(action.body_template, names \cup {"record"}, record)
    IN  IF data.ok THEN Built(BytesVal(EncodeUtf8(data.v))) ELSE BuildErr(data.exc)

_prepare_data_for_post_request(action, record, names) ==
    LET data == Render(action.body_template, names \cup {"record"}, record)
    IN  IF data.ok THEN Built(BytesVal(EncodeUtf8(data.v))) ELSE BuildErr(data.exc)

_prepare_data_for_post_graphql(action, record, names) ==
    LET query == Render(action.body_template, names \cup {"record", "escape"}, record)
    IN  IF query.ok THEN Built(StrVal(JsonDumpsQuery(query.v))) ELSE BuildErr(query.exc)

\* hasattr(self, "_prepare_data_for_post_%s" % request_type)
HasPrepareMethod(request_type) == request_type \in {"request", "graphql"}

\* PostPayload without the hasattr test: getattr raises for an unknown request type
PostPayloadNoFallback(action, record, names) ==
    IF ~HasPrepareMethod(action.request_type) THEN BuildErr("AttributeError")
    ELSE IF action.request_type = "graphql"
    THEN _prepare_data_for_post_graphql(action, record, names)
    ELSE _prepare_data_for_post_request(action, record, names)

\* the body of a POST: the prepare method of the request type, or the default one
PostPayload(action, record, names) ==
    LET prepare_method ==
            IF HasPrepareMethod(action.request_type) THEN action.request_type ELSE "request"
    IN  IF prepare_method = "graphql"
        THEN _prepare_data_for_post_graphql(action, record, names)
        ELSE _prepare_data_for_post_request(action, record, names)

\* a request: what is passed to requests.get / requests.post, and `returned`, the
\* params or payload that func hands back next to the response
NoRequest ==
    [method |-> "none", endpoint |-> "", headers |-> <<>>, data |-> NoneVal, timeout |-> 0,
     returned |-> NoneVal]

\* _execute_webhook_get_request up to the call of requests.get
GetRequest(action, record, names) ==
    LET headers == _get_webhook_headers(action)
        params == _prepare_data_for_get(action, record, names)
    IN  IF ~headers.ok THEN [ok |-> FALSE, exc |-> headers.exc, request |-> NoRequest]
        ELSE IF ~params.ok THEN [ok |-> FALSE, exc |-> params.exc, request |-> NoRequest]
        ELSE [ok |-> TRUE, exc |-> "none",
              request |-> [method |-> "get", endpoint |-> action.endpoint,
                           headers |-> headers.v,
                           data |-> IF params.payload.v = <<>> THEN EmptyDict
                                    ELSE params.payload,
                           timeout |-> DEFAULT_GET_TIMEOUT,
                           returned |-> params.payload]]

\* _execute_webhook_post_request up to the call of requests.post
PostRequest(action, record, names) ==
    LET headers == _get_webhook_headers(action)
        payload == PostPayload(action, record, names)
    IN  IF ~headers.ok THEN [ok |-> FALSE, exc |-> headers.exc, request |-> NoRequest]
        ELSE IF ~payload.ok THEN [ok |-> FALSE, exc |-> payload.exc, request |-> NoRequest]
        ELSE [ok |-> TRUE, exc |-> "none",
              request |-> [method |-> "post", endpoint |-> action.endpoint,
                           headers |-> headers.v, data |-> payload.payload,
                           timeout |-> DEFAULT_POST_TIMEOUT,
                           returned |-> payload.payload]]

\* getattr(self, "_execute_webhook_%s_request" % self.request_method)
BuildRequest(action, record, names) ==
    IF action.request_method = "get" THEN GetRequest(action, record, names)
    ELSE PostRequest(action, record, names)

(***************************************************************************)
(* Responses, exceptions and the status classifier                         *)
(***************************************************************************)
\* what _execute_webhook holds in `response` and in `e`
ResponseObj(status, text) ==
    [kind |-> "response", status_code |-> status, text |-> text, cls |-> "Response"]
ExceptionObj(cls) == [kind |-> "exception", status_code |-> 0, text |-> "", cls |-> cls]
NoneObj == [kind |-> "None", status_code |-> 0, text |-> "", cls |-> "NoneType"]

\* JSON values
JObj(items) == [k |-> "obj", n |-> 0, items |-> items]
JList(items) == [k |-> "list", n |-> 0, items |-> items]
JInt(n) == [k |-> "int", n |-> n, items |-> <<>>]
JNull == [k |-> "null", n |-> 0, items |-> <<>>]
JErr == [k |-> "JSONDecodeError", n |-> 0, items |-> <<>>]
Item(key, val) == [key |-> key, val |-> val]

BodyEmpty == ""
BodyHtml == "<html>"
BodyList == "[1]"
BodyPlain == "{\"ok\": 1}"
Body404 == "{\"data\": {\"x\": {\"statusCode\": 404}}}"
Body200 == "{\"data\": {\"x\": {\"statusCode\": 200}}}"
BodyTwo == "{\"data\": {\"x\": {\"statusCode\": 404}, \"y\": {\"statusCode\": 200}}}"

\* json.loads of the response texts of the model
JsonLoads(text) ==
    CASE text = BodyList -> JList(<<JInt(1)>>)
      [] text = BodyPlain -> JObj(<<Item("ok", JInt(1))>>)
      [] text = Body404 ->
            JObj(<<Item("data", JObj(<<Item("x", JObj(<<Item("statusCode", JInt(404))>>))>>))>>)
      [] text = Body200 ->
            JObj(<<Item("data", JObj(<<Item("x", JObj(<<Item("statusCode", JInt(200))>>))>>))>>)
      [] text = BodyTwo ->
            JObj(<<Item("data",
                        JObj(<<Item("x", JObj(<<Item("statusCode", JInt(404))>>)),
                               Item("y", JObj(<<Item("statusCode", JInt(200))>>))>>))>>)
      [] OTHER -> JErr

\* bool(value)
Truthy(val) ==
    CASE val.k = "obj" -> val.items # <<>>
      [] val.k = "list" -> val.items # <<>>
      [] val.k = "int" -> val.n # 0
      [] OTHER -> FALSE

\* dict.get(key): the value of the last item with that key, or None
RECURSIVE DictGet(_, _)
DictGet(items, key) ==
    IF items = <<>> THEN JNull
    ELSE IF items[Len(items)].key = key THEN items[Len(items)].val
    ELSE DictGet(SubSeq(items, 1, Len(items) - 1), key)

\* for k, v in value.items(): if k == "statusCode": status_code = v
RECURSIVE ScanValue(_, _)
ScanValue(items, status_code) ==
    IF items = <<>> THEN status_code
    ELSE ScanValue(Tail(items),
                   IF Head(items).key = "statusCode" THEN Head(items).val.n ELSE status_code)

\* for __, value in response_data["data"].items(): if isinstance(value, dict): ...
RECURSIVE ScanData(_, _)
ScanData(items, status_code) ==
    IF items = <<>> THEN status_code
    ELSE ScanData(Tail(items),
                  IF Head(items).val.k = "obj"
                  THEN ScanValue(Head(items).val.items, status_code)
                  ELSE status_code)

Classified(n) == [ok |-> TRUE, status_code |-> n, exc |-> "none"]
ClassifyErr(e) == [ok |-> FALSE, status_code |-> 0, exc |-> e]

\* GraphqlStatusCode without the test for an empty text: json.loads("") raises
GraphqlStatusCodeNoEmptyTest(response) ==
    LET response_data == JsonLoads(response.text)
    IN  IF response_data.k = "JSONDecodeError" THEN ClassifyErr("JSONDecodeError")
        ELSE IF ~Truthy(response_data) THEN Classified(response.status_code)
        ELSE IF response_data.k # "obj" THEN ClassifyErr("AttributeError")
        ELSE LET data == DictGet(response_data.items, "data")
             IN  IF Truthy(data) /\ data.k = "obj"
                 THEN Classified(ScanData(data.items, response.status_code))
                 ELSE Classified(response.status_code)

\* the graphql branch of _get_body_status_code
GraphqlStatusCode(response) ==
    LET response_data == IF response.text # "" THEN JsonLoads(response.text) ELSE JNull
    IN  IF response_data.k = "JSONDecodeError" THEN ClassifyErr("JSONDecodeError")
        ELSE IF ~Truthy(response_data) THEN Classified(response.status_code)
        ELSE IF response_data.k # "obj" THEN ClassifyErr("AttributeError")
        ELSE LET data == DictGet(response_data.items, "data")
             IN  IF Truthy(data) /\ data.k = "obj"
                 THEN Classified(ScanData(data.items, response.status_code))
                 ELSE Classified(response.status_code)

\* the branch is taken on the action's `type` field
_get_body_status_code(action, response) ==
    IF action.type = "graphql" THEN GraphqlStatusCode(response)
    ELSE Classified(response.status_code)

\* response.raise_for_status() raises HTTPError for 4xx and 5xx
RaisesForStatus(response) == response.status_code >= 400 /\ response.status_code < 600

(***************************************************************************)
(* Outcome handling                                                        *)
(***************************************************************************)
NoStatus == <<>>

\* LogVals reading the attribute `status`, which a Response does not have
LogValsWrongAttribute(action, body, response) ==
    [webhook_type |-> "outgoing",
     webhook |-> action.name,
     endpoint |-> action.endpoint,
     headers |-> action.headers,
     body |-> Ustr(body),
     response |-> response.text,
     status |-> NoStatus]

\* vals of _webhook_logging; `response` is whatever object the caller passed
LogVals(action, body, response) ==
    [webhook_type |-> "outgoing",
     webhook |-> action.name,
     endpoint |-> action.endpoint,
     headers |-> action.headers,
     body |-> Ustr(body),
     response |-> response.text,
     status |-> IF response.kind = "response" THEN <<response.status_code>> ELSE NoStatus]

\* _webhook_logging without the test of log_webhook_calls
WebhookLoggingAlways(action, body, response) ==
    IF response.kind # "response" THEN [raised |-> "AttributeError", created |-> <<>>]
    ELSE [raised |-> "none", created |-> <<LogVals(action, body, response)>>]

\* _webhook_logging: the entries created, or the exception raised while building vals
\* (only a Response has the attribute `content`)
_webhook_logging(action, body, response) ==
    IF ~action.log_webhook_calls THEN [raised |-> "none", created |-> <<>>]
    ELSE IF response.kind # "response" THEN [raised |-> "AttributeError", created |-> <<>>]
    ELSE [raised |-> "none", created |-> <<LogVals(action, body, response)>>]

\* the except clauses with Timeout tried before ConnectionError
DiagnosticTimeoutFirst(cls) ==
    CASE cls = "HTTPError" -> "HTTPError"
      [] cls \in {"Timeout", "ReadTimeout", "ConnectTimeout"} -> "Timeout"
      [] cls = "ConnectionError" -> "ConnectionError"
      [] cls \in {"RequestException", "TooManyRedirects"} -> "RequestException"
      [] OTHER -> "Exception"

\* the except clause of _handle_exception that catches an exception of class cls
Diagnostic(cls) ==
    CASE cls = "HTTPError" -> "HTTPError"
      [] cls \in {"ConnectionError", "ConnectTimeout"} -> "ConnectionError"
      [] cls \in {"Timeout", "ReadTimeout"} -> "Timeout"
      [] cls \in {"RequestException", "TooManyRedirects"} -> "RequestException"
      [] OTHER -> "Exception"

\* _handle_exception: the diagnostic, then the finally clause logs with the exception
_handle_exception(action, response, exception, body) ==
    LET logged == _webhook_logging(action, body, exception)
    IN  [diagnostic |-> Diagnostic(exception.cls),
         raised |-> logged.raised,
         created |-> logged.created]

\* the except clause of _execute_webhook: the attempt fails with `exception`
Failed(action, response, exception, body, status_code) ==
    LET handled == _handle_exception(action, response, exception, body)
    IN  [state |-> "Failed", exception |-> exception.cls, status_code |-> status_code,
         diagnostic |-> handled.diagnostic, raised |-> handled.raised,
         created |-> handled.created]

\* Settle accepting every classified status of the 2xx class
SettleAny2xx(action, response, body) ==
    IF RaisesForStatus(response)
    THEN Failed(action, response, ExceptionObj("HTTPError"), body, <<>>)
    ELSE LET classified == _get_body_status_code(action, response)
         IN  IF ~classified.ok
             THEN Failed(action, response, ExceptionObj(classified.exc), body, <<>>)
             ELSE IF ~(classified.status_code >= 200 /\ classified.status_code < 300)
             THEN Failed(action, response, ExceptionObj("HTTPError"), body,
                         <<classified.status_code>>)
             ELSE LET logged == _webhook_logging(action, body, response)
                  IN  [state |-> "Succeeded", exception |-> "none",
                       status_code |-> <<classified.status_code>>,
                       diagnostic |-> "none", raised |-> logged.raised,
                       created |-> logged.created]

\* _execute_webhook once func has returned (response, body)
Settle(action, response, body) ==
    IF RaisesForStatus(response)
    THEN Failed(action, response, ExceptionObj("HTTPError"), body, <<>>)
    ELSE LET classified == _get_body_status_code(action, response)
         IN  IF ~classified.ok
             THEN Failed(action, response, ExceptionObj(classified.exc), body, <<>>)
             ELSE IF classified.status_code # 200
             THEN Failed(action, response, ExceptionObj("HTTPError"), body,
                         <<classified.status_code>>)
             ELSE LET logged == _webhook_logging(action, body, response)
                  IN  [state |-> "Succeeded", exception |-> "none",
                       status_code |-> <<classified.status_code>>,
                       diagnostic |-> "none", raised |-> logged.raised,
                       created |-> logged.created]

(***************************************************************************)
(* The state machine                                                       *)
(***************************************************************************)
VARIABLES
    action,        \* the server action: its configuration fields
    eval_context,  \* the evaluation context of the caller
    run,           \* _run_action_custom_webhook_multi: pc, loop index, returned value
    jobs,          \* calls handed to with_delay, in the order they were made
    attempt,       \* the call of _execute_webhook in progress, or the last one
    log,           \* the webhook.logging entries, in creation order
    http,          \* record id -> number of requests.get / requests.post calls made
    outcomes,      \* record id -> outcome of its attempt
    esc            \* a call of get_escaped_value on its own: arguments and results

vars == <<action, eval_context, run, jobs, attempt, log, http, outcomes, esc>>

RecordName(i) ==
    CASE i = 1 -> <<"A", "n", "n">>
      [] i = 2 -> <<" ", "e_acute", "\"", "\n">>
      [] OTHER -> <<"B", "\\">>

RecordAt(i) == [id |-> i, name |-> RecordName(i)]
NoRecord == [id |-> 0, name |-> <<>>]

RECURSIVE Records(_)
Records(n) == IF n = 0 THEN <<>> ELSE Append(Records(n - 1), RecordAt(n))

RecordIds == 1..MaxRecords

Templates == {DEFAULT_BODY_TEMPLATE, TemplateEscape, TemplateBroken}
RequestMethods == {"get", "post"}
RequestTypes == {"request", "graphql", "slack"}
ActionTypes == {"ir.actions.server", "graphql"}
Delays == {30}

Statuses == {200, 201, 500}
Bodies == {BodyEmpty, BodyHtml, BodyList, BodyPlain, Body404, BodyTwo}
TransportErrors == {"ConnectionError", "ConnectTimeout", "ReadTimeout", "TooManyRedirects"}

\* keys of self._get_eval_context(action=self) that the module does not set itself
BaseContextKeys == {"env", "model"}

Idle ==
    [state |-> "Idle", via |-> "none", job |-> 0, record |-> NoRecord, names |-> {},
     ctx_record |-> NoRecord, ctx_records |-> <<>>, request |-> NoRequest,
     body |-> NoneVal, response |-> NoneObj, exception |-> "none", status_code |-> <<>>,
     calls |-> 0, created |-> 0, diagnostic |-> "none", raised |-> "none"]

InProgress == attempt.state \in {"Pending", "Dispatched"}

\* no call of get_escaped_value outside a template
NoEscape ==
    [pc |-> "off", record |-> NoRecord, field |-> "", once |-> FieldFalse,
     twice |-> FieldFalse]

Init ==
    /\ action \in
         [name : {"hook"}, endpoint : {"https://example.org/hook"},
          headers : HeaderTexts, body_template : Templates,
          request_method : RequestMethods, request_type : RequestTypes,
          type : ActionTypes, log_webhook_calls : BOOLEAN,
          delay_execution : BOOLEAN, delay : Delays]
    /\ \E n \in 0..MaxRecords, keys \in SUBSET {"records", "action"} :
         /\ "records" \notin keys => n = 0
         /\ eval_context = [keys |-> BaseContextKeys \cup keys, records |-> Records(n)]
    /\ run = [pc |-> "loop", i |-> 1, result |-> "unset"]
    /\ jobs = <<>>
    /\ attempt = Idle
    /\ log = <<>>
    /\ http = [r \in RecordIds |-> 0]
    /\ outcomes = [r \in RecordIds |-> "none"]
    /\ esc = NoEscape

\* eval_context.get("records", self.model_id.browse())
LoopRecords == IF "records" \in eval_context.keys THEN eval_context.records ELSE <<>>

\* the loop body with delay_execution: self.with_delay(eta=self.delay)._execute_webhook(record, None)
Schedule ==
    /\ run.pc = "loop" /\ run.i <= Len(LoopRecords)
    /\ action.delay_execution
    /\ jobs' = Append(jobs, [record |-> LoopRecords[run.i], eta |-> action.delay,
                             eval_context |-> "None", state |-> "queued"])
    /\ run' = [run EXCEPT !.i = @ + 1]
    /\ UNCHANGED <<action, eval_context, attempt, log, http, outcomes, esc>>

\* the loop body without it: self._execute_webhook(record, eval_context) is entered
ExecuteDirect ==
    /\ run.pc = "loop" /\ run.i <= Len(LoopRecords)
    /\ ~action.delay_execution
    /\ ~InProgress
    /\ attempt' = [Idle EXCEPT !.state = "Pending", !.via = "direct",
                               !.record = LoopRecords[run.i],
                               !.names = eval_context.keys,
                               !.ctx_records = LoopRecords]
    /\ run' = [run EXCEPT !.pc = "in_call"]
    /\ UNCHANGED <<action, eval_context, jobs, log, http, outcomes, esc>>

\* RunJob without the derivation of the context: eval_context stays None
RunJobNoContext(j) ==
    /\ jobs[j].state = "queued"
    /\ \A k \in 1..(j - 1) : jobs[k].state # "queued"
    /\ ~InProgress /\ run.pc # "in_call"
    /\ attempt' = [Idle EXCEPT !.state = "Pending", !.via = "job", !.job = j,
                               !.record = jobs[j].record]
    /\ jobs' = [jobs EXCEPT ![j].state = "started"]
    /\ UNCHANGED <<action, eval_context, run, log, http, outcomes, esc>>

\* the scheduler runs the queued call with the earliest eta (the calls of one run are
\* given the same delay, so the one made first): _execute_webhook(record, None)
\* derives its context
RunJob(j) ==
    /\ jobs[j].state = "queued"
    /\ \A k \in 1..(j - 1) : jobs[k].state # "queued"
    /\ ~InProgress /\ run.pc # "in_call"
    /\ attempt' = [Idle EXCEPT !.state = "Pending", !.via = "job", !.job = j,
                               !.record = jobs[j].record,
                               !.names = BaseContextKeys \cup {"record", "records"},
                               !.ctx_record = jobs[j].record,
                               !.ctx_records = <<jobs[j].record>>]
    /\ jobs' = [jobs EXCEPT ![j].state = "started"]
    /\ UNCHANGED <<action, eval_context, run, log, http, outcomes, esc>>

\* Finish keeping only the entries of the attempt that ends
FinishLastOnly(o) ==
    /\ log' = o.created
    /\ outcomes' = [outcomes EXCEPT ![attempt.record.id] = o.state]
    /\ IF attempt.via = "direct"
       THEN /\ run' = IF o.raised # "none" THEN [run EXCEPT !.pc = "raised"]
                      ELSE [run EXCEPT !.pc = "loop", !.i = @ + 1]
            /\ jobs' = jobs
       ELSE /\ run' = run
            /\ jobs' = [jobs EXCEPT ![attempt.job].state =
                                        IF o.raised # "none" THEN "failed" ELSE "done"]

\* the attempt ends with outcome o: the entries are created, the caller goes on or the
\* exception leaves _execute_webhook
Finish(o) ==
    /\ log' = log \o o.created
    /\ outcomes' = [outcomes EXCEPT ![attempt.record.id] = o.state]
    /\ IF attempt.via = "direct"
       THEN /\ run' = IF o.raised # "none" THEN [run EXCEPT !.pc = "raised"]
                      ELSE [run EXCEPT !.pc = "loop", !.i = @ + 1]
            /\ jobs' = jobs
       ELSE /\ run' = run
            /\ jobs' = [jobs EXCEPT ![attempt.job].state =
                                        IF o.raised # "none" THEN "failed" ELSE "done"]

\* func(record, eval_context) builds the request; a failure is handled at once
BuildFails ==
    /\ attempt.state = "Pending"
    /\ \E built \in {BuildRequest(action, attempt.record, attempt.names)} :
         /\ ~built.ok
         /\ \E o \in {Failed(action, NoneObj, ExceptionObj(built.exc), NoneVal, <<>>)} :
           /\ attempt' = [attempt EXCEPT !.state = o.state, !.exception = o.exception,
                                         !.diagnostic = o.diagnostic,
                                         !.raised = o.raised,
                                         !.created = Len(o.created)]
           /\ Finish(o)
    /\ UNCHANGED <<action, eval_context, http, esc>>

\* func(record, eval_context) builds the request and calls requests.get / requests.post
Dispatch ==
    /\ attempt.state = "Pending"
    /\ \E built \in {BuildRequest(action, attempt.record, attempt.names)} :
           /\ built.ok
           /\ attempt' = [attempt EXCEPT !.state = "Dispatched",
                                         !.request = built.request,
                                         !.calls = @ + 1]
           /\ http' = [http EXCEPT ![attempt.record.id] = @ + 1]
    /\ UNCHANGED <<action, eval_context, run, jobs, log, outcomes, esc>>

\* TransportError with one more try: the request is sent a second time
TransportErrorRetry ==
    /\ attempt.state = "Dispatched"
    /\ IF attempt.calls < 2
       THEN /\ attempt' = [attempt EXCEPT !.calls = @ + 1]
            /\ http' = [http EXCEPT ![attempt.record.id] = @ + 1]
            /\ UNCHANGED <<run, jobs, log, outcomes>>
       ELSE /\ \E cls \in TransportErrors :
                 \E o \in {Failed(action, NoneObj, ExceptionObj(cls), NoneVal, <<>>)} :
                    /\ attempt' = [attempt EXCEPT !.state = o.state,
                                                  !.exception = o.exception,
                                                  !.diagnostic = o.diagnostic,
                                                  !.raised = o.raised,
                                                  !.created = Len(o.created)]
                    /\ Finish(o)
            /\ http' = http
    /\ UNCHANGED <<action, eval_context, esc>>

\* requests.get / requests.post raises: response and body stay None
TransportError ==
    /\ attempt.state = "Dispatched"
    /\ \E cls \in TransportErrors :
         \E o \in {Failed(action, NoneObj, ExceptionObj(cls), NoneVal, <<>>)} :
             /\ attempt' = [attempt EXCEPT !.state = o.state, !.exception = o.exception,
                                           !.diagnostic = o.diagnostic,
                                           !.raised = o.raised,
                                           !.created = Len(o.created)]
             /\ Finish(o)
    /\ UNCHANGED <<action, eval_context, http, esc>>

\* requests.get / requests.post returns a response: the rest of _execute_webhook
Receive ==
    /\ attempt.state = "Dispatched"
    /\ \E status \in Statuses, text \in Bodies :
         \E response \in {ResponseObj(status, text)}, body \in {attempt.request.returned} :
           \E o \in {Settle(action, response, body)} :
             /\ attempt' = [attempt EXCEPT !.state = o.state, !.response = response,
                                           !.body = body,
                                           !.exception = o.exception,
                                           !.status_code = o.status_code,
                                           !.diagnostic = o.diagnostic,
                                           !.raised = o.raised,
                                           !.created = Len(o.created)]
             /\ Finish(o)
    /\ UNCHANGED <<action, eval_context, http, esc>>

\* return eval_context.get("action")
Return ==
    /\ run.pc = "loop" /\ run.i > Len(LoopRecords)
    /\ run' = [run EXCEPT !.pc = "returned",
                          !.result = IF "action" \in eval_context.keys THEN "action"
                                     ELSE "None"]
    /\ UNCHANGED <<action, eval_context, jobs, attempt, log, http, outcomes, esc>>

Next ==
    \/ Schedule
    \/ ExecuteDirect
    \/ \E j \in 1..Len(jobs) : RunJob(j)
    \/ BuildFails
    \/ Dispatch
    \/ TransportError
    \/ Receive
    \/ Return

Spec == Init /\ [][Next]_vars

(***************************************************************************)
(* get_escaped_value on its own: the field value is drawn from the texts   *)
(* of at most MaxFieldLen characters over EscapeAlphabet, the function is   *)
(* applied to it, and then once more to its own result.                     *)
(***************************************************************************)
\* the six characters of ESCAPE_CHARS, the backslash, a blank and a letter
EscapeAlphabet == {"\"", "\n", "\r", "\t", "BS", "\f", "\\", " ", "a"}

Texts(n) == UNION {[1..k -> EscapeAlphabet] : k \in 0..n}

\* He said "hi" and a newline
QuotedLine == <<"H", "e", " ", "s", "a", "i", "d", " ", "\"", "h", "i", "\"", "\n">>

FieldValues == Texts(MaxFieldLen) \cup {QuotedLine}
FieldNames == {"name", "id", "missing"}

EscapeInit ==
    /\ action = [name |-> "hook", endpoint |-> "https://example.org/hook",
                 headers |-> "{}", body_template |-> TemplateEscape,
                 request_method |-> "post", request_type |-> "graphql",
                 type |-> "ir.actions.server", log_webhook_calls |-> FALSE,
                 delay_execution |-> FALSE, delay |-> 30]
    /\ eval_context = [keys |-> BaseContextKeys, records |-> <<>>]
    /\ run = [pc |-> "returned", i |-> 1, result |-> "None"]
    /\ jobs = <<>>
    /\ attempt = Idle
    /\ log = <<>>
    /\ http = [r \in RecordIds |-> 0]
    /\ outcomes = [r \in RecordIds |-> "none"]
    /\ \E v \in FieldValues, f \in FieldNames :
         esc = [pc |-> "input", record |-> [id |-> 7, name |-> v], field |-> f,
                once |-> FieldFalse, twice |-> FieldFalse]

\* the record with a returned value stored back in the field it was read from
WithField(record, field, value) ==
    IF field = "name" /\ value.t = "str" THEN [record EXCEPT !.name = value.v]
    ELSE record

\* escape(record, field)
Escape ==
    /\ esc.pc = "input"
    /\ esc' = [esc EXCEPT !.pc = "once",
                          !.once = get_escaped_value(esc.record, esc.field)]
    /\ UNCHANGED <<action, eval_context, run, jobs, attempt, log, http, outcomes>>

\* escape applied to the value the first call returned
EscapeAgain ==
    /\ esc.pc = "once"
    /\ esc' = [esc EXCEPT !.pc = "twice",
                          !.twice = get_escaped_value(
                                        WithField(esc.record, esc.field, esc.once),
                                        esc.field)]
    /\ UNCHANGED <<action, eval_context, run, jobs, attempt, log, http, outcomes>>

EscapeNext ==
    \/ Escape
    \/ EscapeAgain

EscapeSpec == EscapeInit /\ [][EscapeNext]_vars

(***************************************************************************)
(* Properties                                                              *)
(***************************************************************************)
Finished == attempt.state \in {"Succeeded", "Failed"}
Received == attempt.response.kind = "response"

\* C1: every attempt that ends Failed creates exactly one log entry, whatever the
\* failure; stated here for the actions that have log_webhook_calls set, where the
\* claim and the finally clause of _handle_exception ask for the same entry.
C1_FailedAttemptLogsOnce ==
    (attempt.state = "Failed" /\ action.log_webhook_calls) => attempt.created = 1

\* C2: no failure leaves _execute_webhook, so when the loop of
\* _run_action_custom_webhook_multi has stopped every record of the batch has had
\* its attempt made (or scheduled).
C2_FailureNeverAbortsBatch ==
    run.pc \in {"raised", "returned"} =>
        \A k \in 1..Len(LoopRecords) :
            \/ outcomes[LoopRecords[k].id] # "none"
            \/ \E j \in 1..Len(jobs) : jobs[j].record = LoopRecords[k]

\* C3: a finished attempt is Succeeded exactly when a response was received, its
\* HTTP status is no 4xx/5xx status and the classified status is 200; otherwise it
\* is Failed.
C3_SucceededIff ==
    Finished =>
        (attempt.state = "Succeeded" <=>
            /\ Received
            /\ ~(attempt.response.status_code >= 400 /\ attempt.response.status_code < 600)
            /\ attempt.status_code = <<200>>)

\* a 201 response without an error status in its body ends Failed
C3_Witness ==
    /\ attempt.state = "Failed" /\ Received
    /\ attempt.response.status_code = 201 /\ attempt.status_code = <<201>>

\* C4: an attempt that ends Succeeded with log_webhook_calls set creates exactly one
\* log entry, whose status is the HTTP status code of the response (not the
\* classified status) and whose response is the response body.
C4_SuccessLogged ==
    (attempt.state = "Succeeded" /\ action.log_webhook_calls) =>
        /\ attempt.created = 1
        /\ Len(log) >= 1
        /\ log[Len(log)].status = <<attempt.response.status_code>>
        /\ log[Len(log)].response = attempt.response.text
        /\ log[Len(log)].body = Ustr(attempt.body)

\* a logged success whose HTTP status (201) differs from its classified status (200)
C4_Witness ==
    /\ attempt.state = "Succeeded" /\ action.log_webhook_calls
    /\ attempt.response.status_code = 201 /\ attempt.status_code = <<200>>
    /\ attempt.created = 1

\* C5: with request_type graphql, a response with HTTP status 200 and body
\* {"data": {"x": {"statusCode": 404}}} is classified 404 and the attempt ends Failed.
C5_GraphqlBodyStatus ==
    (/\ Finished /\ Received
     /\ action.request_type = "graphql"
     /\ attempt.response.status_code = 200 /\ attempt.response.text = Body404) =>
        (attempt.state = "Failed" /\ attempt.status_code = <<404>>)

\* C6 as stated: for a graphql request whose response body is empty or is not
\* parseable JSON, classification does not raise and gives the HTTP status, so with
\* HTTP status 200 the attempt ends Succeeded.
C6_UnparseableFallsBack ==
    (/\ Finished /\ Received /\ ~RaisesForStatus(attempt.response)
     /\ action.request_type = "graphql"
     /\ attempt.response.text \in {BodyEmpty, BodyHtml}) =>
        /\ attempt.status_code = <<attempt.response.status_code>>
        /\ attempt.response.status_code = 200 => attempt.state = "Succeeded"

\* C6 amended: an empty body is classified by the HTTP status without raising, so
\* with HTTP status 200 the attempt ends Succeeded; a body that is not parseable JSON
\* is classified by the HTTP status only when the graphql branch of the classifier is
\* not taken; when it is taken json.loads raises and the attempt ends Failed.
C6_EmptyFallsBackUnparseableRaises ==
    (Finished /\ Received /\ ~RaisesForStatus(attempt.response)) =>
        /\ attempt.response.text = BodyEmpty =>
             /\ attempt.status_code = <<attempt.response.status_code>>
             /\ attempt.response.status_code = 200 => attempt.state = "Succeeded"
        /\ (attempt.response.text = BodyHtml /\ action.type # "graphql") =>
             /\ attempt.status_code = <<attempt.response.status_code>>
             /\ attempt.response.status_code = 200 => attempt.state = "Succeeded"
        /\ (attempt.response.text = BodyHtml /\ action.type = "graphql") =>
             /\ attempt.state = "Failed"
             /\ attempt.exception = "JSONDecodeError"
             /\ attempt.status_code = <<>>

\* the graphql branch is taken on an empty body with HTTP status 200
C6_Witness ==
    /\ attempt.state = "Succeeded" /\ action.type = "graphql"
    /\ action.request_type = "graphql"
    /\ attempt.response.text = BodyEmpty /\ attempt.response.status_code = 200

\* C7: a Failed attempt for which a response was received (HTTP 500, or HTTP 200 with
\* a classified status other than 200) writes a log entry whose status is the HTTP
\* status code of the response and whose response is the response body.
C7_FailedLogStatus ==
    (attempt.state = "Failed" /\ Received /\ action.log_webhook_calls) =>
        /\ attempt.created = 1
        /\ Len(log) >= 1
        /\ log[Len(log)].status = <<attempt.response.status_code>>
        /\ log[Len(log)].response = attempt.response.text

\* C8: an attempt makes at most one HTTP call, and exactly one when the request was
\* built; no record gets a second HTTP call or a second scheduling, and once its
\* attempt has Failed nothing is queued or in progress for it.
C8_OneCallNoRetry ==
    /\ attempt.calls <= 1
    /\ attempt.state = "Dispatched" => attempt.calls = 1
    /\ (Finished /\ attempt.calls = 0) =>
         ~BuildRequest(action, attempt.record, attempt.names).ok
    /\ \A r \in RecordIds :
         /\ http[r] <= 1
         /\ Cardinality({j \in 1..Len(jobs) : jobs[j].record.id = r}) <= 1
         /\ outcomes[r] = "Failed" =>
              /\ ~(InProgress /\ attempt.record.id = r)
              /\ \A j \in 1..Len(jobs) :
                    jobs[j].record.id = r => jobs[j].state \in {"done", "failed"}

\* a delayed attempt that made its one call and Failed
C8_Witness ==
    /\ attempt.state = "Failed" /\ attempt.via = "job" /\ attempt.calls = 1
    /\ http[attempt.record.id] = 1

\* C9: with delay_execution the loop makes no attempt itself: each record is handed
\* to the scheduler with the delay and no context, and an attempt the scheduler
\* starts has `record` and `records` of that record in its context.
C9_DelayedExecution ==
    /\ action.delay_execution =>
         /\ run.pc # "in_call" /\ attempt.via # "direct"
         /\ Len(jobs) = run.i - 1
         /\ \A j \in 1..Len(jobs) :
               /\ jobs[j].record = LoopRecords[j]
               /\ jobs[j].eta = action.delay
               /\ jobs[j].eval_context = "None"
         /\ \A r \in RecordIds :
               http[r] > 0 => \E j \in 1..Len(jobs) :
                                 jobs[j].record.id = r /\ jobs[j].state # "queued"
    /\ attempt.via = "job" =>
         /\ {"record", "records"} \subseteq attempt.names
         /\ attempt.ctx_record = attempt.record
         /\ attempt.ctx_records = <<attempt.record>>
         /\ attempt.record = jobs[attempt.job].record

\* a scheduled call is being executed: its request is built from the derived context
C9_Witness ==
    /\ attempt.via = "job" /\ attempt.state = "Dispatched"
    /\ run.pc = "returned" /\ Len(jobs) = MaxRecords

\* C10: the body of a POST is the rendered template as UTF-8 bytes for request_type
\* request, the JSON object {"query": <rendered text>, "variables": {}} for graphql,
\* and for any other request_type exactly what request gives, without an error.
C10_PostBodyByRequestType ==
    (attempt.state # "Idle" /\ action.request_method = "post") =>
        LET names == attempt.names
            record == attempt.record
            plain == Render(action.body_template, names \cup {"record"}, record)
            query == Render(action.body_template, names \cup {"record", "escape"}, record)
            built == BuildRequest(action, record, names)
            asRequest == BuildRequest([action EXCEPT !.request_type = "request"],
                                      record, names)
            sent == attempt.request.data
        IN  /\ (action.request_type = "request" /\ attempt.state = "Dispatched") =>
                 /\ plain.ok /\ sent.t = "bytes"
                 /\ DecodeUtf8(sent.v) = plain.v
                 /\ Len(sent.v) >= Len(plain.v)
            /\ (action.request_type = "graphql" /\ attempt.state = "Dispatched") =>
                 /\ query.ok /\ sent.t = "str"
                 /\ sent.v = <<"{", "\"", "q", "u", "e", "r", "y", "\"", ":", " ", "\"">>
                             \o JsonEscape(query.v)
                             \o <<"\"", ",", " ", "\"", "v", "a", "r", "i", "a", "b", "l",
                                  "e", "s", "\"", ":", " ", "{", "}", "}">>
            /\ action.request_type \notin {"request", "graphql"} =>
                 /\ built = asRequest
                 /\ attempt.state = "Dispatched" => sent = asRequest.request.data

\* a slack POST has been sent with the body request would have sent
C10_Witness ==
    /\ attempt.state = "Dispatched" /\ action.request_method = "post"
    /\ action.request_type = "slack" /\ attempt.request.data.t = "bytes"
    /\ attempt.record.id = 2

\* the text of a field value with each character of ESCAPE_CHARS written as
\* its backslash pair and every other character kept
RECURSIVE Escaped(_)
Escaped(s) ==
    IF s = <<>> THEN <<>>
    ELSE (CASE Head(s) = "\"" -> <<"\\", "\"">>
            [] Head(s) = "\n" -> <<"\\", "n">>
            [] Head(s) = "\r" -> <<"\\", "r">>
            [] Head(s) = "\t" -> <<"\\", "t">>
            [] Head(s) = "BS" -> <<"\\", "b">>
            [] Head(s) = "\f" -> <<"\\", "f">>
            [] OTHER -> <<Head(s)>>) \o Escaped(Tail(s))

EscapedOnce == esc.pc \in {"once", "twice"}

\* C11 as stated: escape on the name  He said "hi"<newline>  returns
\* He said \"hi\"\n  : each quote as backslash quote and the newline as the
\* two characters backslash and n.
C11_QuotedLineKeepsNewline ==
    (EscapedOnce /\ esc.field = "name" /\ esc.record.name = QuotedLine) =>
        esc.once = FieldStr(<<"H", "e", " ", "s", "a", "i", "d", " ", "\\", "\"",
                              "h", "i", "\\", "\"", "\\", "n">>)

\* C11 amended: escape on the name  He said "hi"<newline>  returns
\* He said \"hi\"  : each quote becomes backslash quote, and the newline at
\* the end is trimmed before the replacement; a newline inside a value
\* (a<newline>a) is returned as the two characters backslash and n.
C11_QuotedLineTrimmed ==
    /\ (EscapedOnce /\ esc.field = "name" /\ esc.record.name = QuotedLine) =>
          esc.once = FieldStr(<<"H", "e", " ", "s", "a", "i", "d", " ", "\\", "\"",
                                "h", "i", "\\", "\"">>)
    /\ (EscapedOnce /\ esc.field = "name" /\ esc.record.name = <<"a", "\n", "a">>) =>
          esc.once = FieldStr(<<"a", "\\", "n", "a">>)

\* escape has returned for the name  He said "hi"<newline>
C11_Witness ==
    esc.pc = "once" /\ esc.field = "name" /\ esc.record.name = QuotedLine

\* C12: for every record and field name escape returns false when the field
\* is absent, the raw value when it is not a non-empty string, and otherwise
\* the value without its leading and trailing whitespace in which every
\* double quote, newline, carriage return, tab, backspace and form feed is
\* its two-character backslash sequence and every other character, the
\* backslash included, is as it was.
C12_EscapeResult ==
    EscapedOnce =>
        LET v == esc.record.name
        IN  CASE esc.field = "missing" -> esc.once = FieldFalse
              [] esc.field = "id" -> esc.once = FieldInt(esc.record.id)
              [] esc.field = "name" /\ v = <<>> -> esc.once = FieldStr(<<>>)
              [] OTHER ->
                   \E a \in 0..Len(v) : \E b \in a..Len(v) :
                      /\ \A k \in 1..a : v[k] \in Whitespace
                      /\ \A k \in (b + 1)..Len(v) : v[k] \in Whitespace
                      /\ a < b => (v[a + 1] \notin Whitespace /\ v[b] \notin Whitespace)
                      /\ esc.once = FieldStr(Escaped(SubSeq(v, a + 1, b)))

\* escape has returned for a value with blanks around a quote, a backslash
\* and a quote again
C12_Witness ==
    /\ esc.pc = "once" /\ esc.field = "name"
    /\ esc.record.name = <<"\"", "\\", "\"">>
    /\ esc.once = FieldStr(<<"\\", "\"", "\\", "\\", "\"">>)

\* C13 as stated: escape applied to the escaped output of a value gives a
\* result different from the single application.
C13_SecondApplicationDiffers ==
    (esc.pc = "twice" /\ esc.once.t = "str" /\ esc.once.v # <<>>) =>
        esc.twice # esc.once

\* C13 amended: escape is not idempotent: escape applied to its own result
\* differs from the single application exactly for the values that hold a
\* double quote, where each call puts one more backslash before the quote;
\* for every other value the second application returns the first result.
C13_NotIdempotent ==
    esc.pc = "twice" =>
        LET quoted == esc.field = "name" /\ \E k \in 1..Len(esc.record.name) :
                                               esc.record.name[k] = "\""
        IN  /\ (esc.twice # esc.once) <=> quoted
            /\ quoted => Len(esc.twice.v) > Len(esc.once.v)

\* the second application has changed the result of the first
C13_Witness ==
    /\ esc.pc = "twice" /\ esc.twice # esc.once
    /\ esc.record.name = <<"a", "\"">>
    /\ esc.once = FieldStr(<<"a", "\\", "\"">>)
    /\ esc.twice = FieldStr(<<"a", "\\", "\\", "\"">>)

\* C14: for a POST webhook of request type `request` with log_webhook_calls
\* set, every event whose delivery succeeds adds one log entry (so the log
\* has one entry per record delivered so far), and the body of that entry is
\* the body template rendered against the record as it was passed with the
\* event, which is the text of the payload that was sent.
C14_LoggedBodyIsPayload ==
    (action.request_method = "post" /\ action.request_type = "request"
       /\ action.log_webhook_calls) =>
        /\ Len(log) = Cardinality({r \in RecordIds : outcomes[r] = "Succeeded"})
        /\ attempt.state = "Succeeded" =>
              LET entry == log[Len(log)]
                  record == attempt.record
                  rendered == Render(action.body_template,
                                     attempt.names \cup {"record"}, record)
              IN  /\ attempt.created = 1
                  /\ rendered.ok /\ entry.body = rendered.v
                  /\ attempt.request.data = BytesVal(EncodeUtf8(entry.body))
                  /\ entry.body =
                       <<"\n", "{", "\n", " ", " ", " ", " ", "\"", "i", "d", "\"", ":", " ">>
                       \o IntToStr(record.id)
                       \o <<",", "\n", " ", " ", " ", " ", "\"", "n", "a", "m", "e", "\"",
                            ":", " ", "\"">>
                       \o record.name \o <<"\"", "\n", "}">>

\* the second record of a batch has been delivered and logged after the first
C14_Witness ==
    /\ action.request_method = "post" /\ action.request_type = "request"
    /\ action.log_webhook_calls /\ attempt.state = "Succeeded"
    /\ attempt.record.id = 2 /\ Len(log) = 2
    /\ log[1].body # log[2].body

\* C15: the log is append-only: whatever step is taken (an attempt that
\* succeeds, fails, or is run from the queue), the entries that exist are
\* still there afterwards, unchanged and in the same positions.
C15_LogAppendOnly ==
    [][/\ Len(log') >= Len(log)
       /\ SubSeq(log', 1, Len(log)) = log]_vars

\* a queued attempt has failed after an earlier one was logged, and the
\* earlier entry is still in the log
C15_Witness ==
    /\ attempt.state = "Failed" /\ attempt.via = "job" /\ attempt.record.id = 2
    /\ Len(log) = 1 /\ outcomes[1] = "Succeeded"

\* C16: one attempt creates at most one log entry (the log never holds more
\* entries than attempts have ended), and an attempt that ends Succeeded
\* with log_webhook_calls unset creates none: the log stays empty.
C16_AtMostOneEntry ==
    /\ attempt.created <= 1
    /\ Len(log) <= Cardinality({r \in RecordIds : outcomes[r] # "none"})
    /\ (attempt.state = "Succeeded" /\ ~action.log_webhook_calls) =>
          (attempt.created = 0 /\ log = <<>>)

\* two attempts have succeeded without logging and nothing was logged
C16_Witness ==
    /\ attempt.state = "Succeeded" /\ ~action.log_webhook_calls
    /\ attempt.record.id = 2 /\ outcomes[1] = "Succeeded" /\ log = <<>>

\* the stored headers are not the text of a JSON object
HeadersInvalid == action.headers \notin {"", "{}"}

\* the template does not compile, or calls escape where the context has none
TemplateFails ==
    \/ action.body_template = TemplateBroken
    \/ /\ action.body_template = TemplateEscape
       /\ ~(action.request_method = "post" /\ action.request_type = "graphql")

\* C17: when building the request fails (the stored headers are not a valid
\* object, or the template does not render), no HTTP request is sent for the
\* attempt: it is Pending and then Failed, never Dispatched, with no call of
\* requests.get or requests.post, for GET and for POST.
C17_BuildFailureSendsNothing ==
    (HeadersInvalid \/ TemplateFails) =>
        /\ \A r \in RecordIds : http[r] = 0
        /\ attempt.state \in {"Idle", "Pending", "Failed"}
        /\ attempt.calls = 0
        /\ attempt.request = NoRequest /\ attempt.response = NoneObj
        /\ attempt.state = "Failed" =>
              attempt.exception \in {"JSONDecodeError", "TemplateSyntaxError",
                                     "UndefinedError"}

\* a POST attempt with headers that are not JSON has failed without a request
C17_Witness ==
    /\ attempt.state = "Failed" /\ action.request_method = "post"
    /\ HeadersInvalid /\ ~TemplateFails
    /\ attempt.exception = "JSONDecodeError" /\ http[attempt.record.id] = 0

\* C18: for a webhook whose request_type is not graphql the classified
\* status is the HTTP status code whatever the body holds: a response with
\* HTTP status 200 and the body {"data": {"x": {"statusCode": 404}}}
\* classifies as 200 and the attempt ends Succeeded.
C18_NonGraphqlUsesHttpStatus ==
    (Finished /\ Received /\ action.request_type # "graphql"
       /\ ~RaisesForStatus(attempt.response)) =>
        /\ attempt.status_code = <<attempt.response.status_code>>
        /\ (attempt.response.status_code = 200 /\ attempt.response.text = Body404) =>
              attempt.state = "Succeeded"

\* the response made raise_for_status raise, or its classified status is not 200
StatusRefused ==
    /\ Received
    /\ \/ RaisesForStatus(attempt.response)
       \/ attempt.status_code \notin {<<>>, <<200>>}

\* C19 as stated: every Failed attempt records one of the five categories:
\* HTTPError for a raised HTTP error status or a classified status other
\* than 200, ConnectionError for a connection failure, Timeout for a
\* timeout, RequestException for any other error of the request library and
\* Exception for everything else; the logging step runs afterwards in every
\* category.
C19_DiagnosticByCause ==
    attempt.state = "Failed" =>
        /\ attempt.diagnostic \in {"HTTPError", "ConnectionError", "Timeout",
                                    "RequestException", "Exception"}
        /\ StatusRefused => attempt.diagnostic = "HTTPError"
        /\ attempt.exception = "ConnectionError" => attempt.diagnostic = "ConnectionError"
        /\ attempt.exception \in {"ReadTimeout", "ConnectTimeout"} =>
              attempt.diagnostic = "Timeout"
        /\ attempt.exception = "TooManyRedirects" =>
              attempt.diagnostic = "RequestException"
        /\ attempt.exception \in {"JSONDecodeError", "AttributeError", "UndefinedError",
                                   "TemplateSyntaxError"} =>
              attempt.diagnostic = "Exception"
        /\ action.log_webhook_calls <=> attempt.raised = "AttributeError"

\* C19 amended: as stated, except that the category is the first except
\* clause that matches the exception: a timeout while connecting
\* (ConnectTimeout, which is a ConnectionError and a Timeout) is recorded as
\* ConnectionError, and only the other timeouts are recorded as Timeout. The
\* logging step is reached in every category: with log_webhook_calls set it
\* is the step that raises AttributeError.
C19_DiagnosticByExceptClause ==
    attempt.state = "Failed" =>
        /\ attempt.diagnostic \in {"HTTPError", "ConnectionError", "Timeout",
                                    "RequestException", "Exception"}
        /\ StatusRefused <=> attempt.diagnostic = "HTTPError"
        /\ attempt.exception \in {"ConnectionError", "ConnectTimeout"} <=>
              attempt.diagnostic = "ConnectionError"
        /\ attempt.exception = "ReadTimeout" <=> attempt.diagnostic = "Timeout"
        /\ attempt.exception = "TooManyRedirects" <=>
              attempt.diagnostic = "RequestException"
        /\ attempt.exception \in {"JSONDecodeError", "AttributeError", "UndefinedError",
                                   "TemplateSyntaxError"} <=>
              attempt.diagnostic = "Exception"
        /\ action.log_webhook_calls <=> attempt.raised = "AttributeError"

\* a timeout while connecting has been recorded as ConnectionError
C19_Witness ==
    /\ attempt.state = "Failed" /\ attempt.exception = "ConnectTimeout"
    /\ attempt.diagnostic = "ConnectionError" /\ attempt.calls = 1

\* C20: _run_action_custom_webhook_multi takes the records of the context
\* one after the other in their order and starts exactly one attempt for
\* each, made at once or queued when delay_execution is set, each for one
\* record alone; after the last record it returns the `action` entry of the
\* context, or None when there is none; with no records it makes no attempt.
C20_OneAttemptPerRecordInOrder ==
    /\ run.pc # "raised"
    /\ \A j \in 1..Len(jobs) : j <= Len(LoopRecords) /\ jobs[j].record = LoopRecords[j]
    /\ action.delay_execution => Len(jobs) = run.i - 1
    /\ run.pc = "in_call" =>
          (attempt.via = "direct" /\ attempt.record = LoopRecords[run.i])
    /\ ~action.delay_execution =>
          /\ jobs = <<>>
          /\ \A k \in 1..Len(LoopRecords) :
                (outcomes[LoopRecords[k].id] # "none") <=> (k < run.i)
          /\ \A r \in RecordIds : http[r] <= 1
    /\ run.pc = "returned" =>
          /\ run.i = Len(LoopRecords) + 1
          /\ run.result = IF "action" \in eval_context.keys THEN "action" ELSE "None"
    /\ LoopRecords = <<>> =>
          (attempt = Idle /\ jobs = <<>> /\ \A r \in RecordIds : http[r] = 0)

====
